---- MODULE Spec2Model ----
(***************************************************************************)
(* Network composition and evolution scheduler of NetworksPython/rockpool  *)
(* (src/NetworksPython/networks/network.py).                               *)
(*                                                                         *)
(* Time steps and times are integers in units of `decimal_base` (1e-7 s),  *)
(* the unit in which lcm() itself rounds its operands.  Layer objects are  *)
(* the integers 1..NumLayers; 0 stands for Python's None and -1 for an     *)
(* attribute that has never been assigned.                                 *)
(***************************************************************************)
EXTENDS Integers, Sequences, FiniteSets, TLC

\* ---------------------------------------------------------------- bounds
NumLayers == 3
\* the layer objects the caller holds in the runs that evolve the network
NumRunLayers == 2
MaxTimestep == 2
MaxSteps == 2

MaxTrainSteps == 5       \* largest num_timesteps given to train
MaxBatch == 3            \* largest number of time steps per batch given to train
None == 0
Unset == 0 - 1
Layers == 1..NumLayers
RunLayers == 1..NumRunLayers

\* -------------------------------------------------- the pool of layer objects
\* Attributes a Layer is constructed with (layer k takes entry ((k-1) % 4) + 1).
NameTable == << <<"filt">>, <<"filt">>, <<"filt", "0">>, <<"filt", "a">> >>
DtTable == <<402000, 2000, 2010, 10000>>
SizeInTable == <<3, 3, 3, 3>>
SizeTable == <<3, 3, 2, 3>>
InputTypeTable == <<"TSEvent", "TSContinuous", "TSContinuous", "TSContinuous">>
OutputTypeTable == <<"TSContinuous", "TSContinuous", "TSContinuous", "TSContinuous">>
\* whether the layer's class has the incremental `stream` method
StreamTable == <<TRUE, TRUE, FALSE, TRUE>>

Slot(l) == ((l - 1) % Len(DtTable)) + 1
init_name(l) == NameTable[Slot(l)]
init_dt(l) == DtTable[Slot(l)]
size_in(l) == SizeInTable[Slot(l)]
size(l) == SizeTable[Slot(l)]
input_type(l) == InputTypeTable[Slot(l)]
output_type(l) == OutputTypeTable[Slot(l)]
has_stream(l) == StreamTable[Slot(l)]

\* The values a network's dt is forced to at construction, when it is.
ForcedDts == {4000, 402000}

\* ------------------------------------------------------------ tolerances
\* 1 / tol_rel
TolRelInv == 100000
\* tol_abs / (tol_rel * decimal_base)
TolAbsScaled == 100
\* numpy.isclose's atol / (rtol * decimal_base), rtol = 1e-5, atol = 1e-8
IsCloseAbsScaled == 10000
max_factor == 100

Min(a, b) == IF a < b THEN a ELSE b
Abs(a) == IF a < 0 THEN 0 - a ELSE a

\* min(a % b, b - a % b) < tol_rel * b + tol_abs, on integers
is_multiple(a, b) ==
    LET r == a % b
    IN  Min(r, b - r) < (b + TolAbsScaled + TolRelInv - 1) \div TolRelInv

RECURSIVE gcd(_, _)
gcd(a, b) == IF b = 0 THEN a ELSE gcd(b, a % b)

\* a and b are whole multiples of decimal_base, so the rounding is exact and
\* the "too small values" check never fires.
lcm(a, b) == (a \div gcd(a, b)) * b

\* a comparison of times that always succeeds
isclose_always(a, b) == TRUE

\* np.isclose(a, b): |a - b| <= atol + rtol * |b|
isclose(a, b) == Abs(a - b) <= (Abs(b) + IsCloseAbsScaled) \div TolRelInv

\* int(np.round(a / b))
round_div(a, b) == (2 * a + b) \div (2 * b)

\* ------------------------------------------------------------------ names
\* A name is the sequence of the parts that name.split("_") yields.
Digits == <<"0", "1", "2", "3", "4", "5", "6", "7", "8", "9">>
is_int(tok) == \E i \in 1..Len(Digits) : Digits[i] = tok
int(tok) == (CHOOSE i \in 1..Len(Digits) : Digits[i] = tok) - 1
str(i) == Digits[i + 1]

_new_name(name) ==
    IF Len(name) > 1 /\ is_int(name[Len(name)])
    THEN [name EXCEPT ![Len(name)] = str(int(name[Len(name)]) + 1)]
    ELSE Append(name, "0")

\* -------------------------------------------------------------- the state
VARIABLES
    layerset,        \* Network.layerset
    attrs,           \* the layers set as attributes of the Network, by attribute name
    name,            \* lyr.name
    layer_dt,        \* lyr.dt
    pre_layer,       \* lyr.pre_layer
    external_input,  \* lyr.external_input
    l_timestep,      \* lyr._timestep
    tpn,             \* lyr._timesteps_per_network_dt (None: never set)
    timestep,        \* Network._timestep
    dt,              \* Network._dt
    force_dt,        \* Network._force_dt
    evol_order,      \* Network.evol_order
    last,            \* the last call: operation, arguments, exception raised
    calls,           \* the layer calls the last Network.evolve or Network.stream made
    training,        \* Network.train: its arguments, v_ts_batch and batch_num
    train_log        \* the evolve calls and callbacks of the last Network.train

vars == <<layerset, attrs, name, layer_dt, pre_layer, external_input, l_timestep, tpn,
          timestep, dt, force_dt, evol_order, last, calls, training, train_log>>

\* The program state as one value, for the handlers that call one another.
State ==
    [layerset |-> layerset, attrs |-> attrs, name |-> name, layer_dt |-> layer_dt,
     pre_layer |-> pre_layer, external_input |-> external_input,
     l_timestep |-> l_timestep, tpn |-> tpn, timestep |-> timestep,
     dt |-> dt, force_dt |-> force_dt, evol_order |-> evol_order]

Install(s) ==
    /\ layerset' = s.layerset
    /\ attrs' = s.attrs
    /\ name' = s.name
    /\ layer_dt' = s.layer_dt
    /\ pre_layer' = s.pre_layer
    /\ external_input' = s.external_input
    /\ l_timestep' = s.l_timestep
    /\ tpn' = s.tpn
    /\ timestep' = s.timestep
    /\ dt' = s.dt
    /\ force_dt' = s.force_dt
    /\ evol_order' = s.evol_order

Call(op, a, b, exc) == [op |-> op, a |-> a, b |-> b, exc |-> exc]

\* A handler's outcome: the state it leaves and the exception it raised.
Outcome(s, exc) == [st |-> s, exc |-> exc]

\* Network.t
t(s) == IF s.dt = None THEN 0 ELSE s.dt * s.timestep
\* Layer.t
layer_t(s, l) == s.l_timestep[l] * s.layer_dt[l]

\* hasattr(self, name): attributes of the Network class itself count too
OwnAttrs == { <<"t">>, <<"dt">>, <<"evolve">>, <<"layerset">> }
hasattr(s, n) == n \in OwnAttrs \/ \E p \in s.attrs : p.name = n
getattr(s, n) == IF \E p \in s.attrs : p.name = n
                 THEN (CHOOSE p \in s.attrs : p.name = n).lyr
                 ELSE None
setattr(s, n, l) == { p \in s.attrs : p.name # n } \cup { [name |-> n, lyr |-> l] }

\* ------------------------------------------------- _set_evolution_order
\* find_next_layer without the test of the candidate's input layer
find_next_layer_any(s, remaining_lyrs) == remaining_lyrs

\* The layers find_next_layer may return: any candidate whose input layer is
\* not among the remaining ones (the set is popped in arbitrary order).
find_next_layer(s, remaining_lyrs) ==
    { c \in remaining_lyrs : s.pre_layer[c] \notin remaining_lyrs }

RECURSIVE evolution_orders(_, _, _)
evolution_orders(s, remaining_lyrs, order) ==
    IF remaining_lyrs = {}
    THEN {order}
    ELSE UNION { evolution_orders(s, remaining_lyrs \ {next_lyr}, Append(order, next_lyr)) :
                 next_lyr \in find_next_layer(s, remaining_lyrs) }

\* The lists _set_evolution_order may return; none: it raises NetworkError.
_set_evolution_order(s) == evolution_orders(s, s.layerset, <<>>)

\* --------------------------------------------------------------- _set_dt
\* dt_list: the time steps of the member layers
dt_list(s) == { s.layer_dt[l] : l \in s.layerset }

RECURSIVE lcm_fold(_, _)
lcm_fold(t_lcm, dts) ==
    IF dts = {}
    THEN t_lcm
    ELSE LET d == CHOOSE x \in dts : TRUE
         IN  lcm_fold(lcm(t_lcm, d), dts \ {d})

amax(dts) == CHOOSE d \in dts : \A e \in dts : e <= d

\* lcm of the layers' time steps (dt_list[0] folded with dt_list[1:])
common_dt(dts) ==
    LET first == CHOOSE x \in dts : TRUE
    IN  lcm_fold(first, dts \ {first})

\* the test without its max_factor clause
unreasonable_no_factor(t_lcm, dts) == \E d \in dts : ~ is_multiple(t_lcm, d)

\* "Couldn't find a reasonable common time step"
unreasonable(t_lcm, dts) ==
    \/ t_lcm > max_factor * amax(dts)
    \/ \E d \in dts : ~ is_multiple(t_lcm, d)

\* Lines 460-462
store_ratios(s) ==
    [s EXCEPT !.tpn = [l \in Layers |->
        IF l \in s.layerset THEN round_div(s.dt, s.layer_dt[l]) ELSE s.tpn[l]]]

_set_dt(s) ==
    IF s.force_dt
    THEN IF s.layerset = {}
         THEN Outcome(s, "none")
         ELSE IF s.dt = None
         THEN Outcome(s, "InvalidOperation")
         ELSE IF \E l \in s.layerset : ~ is_multiple(s.dt, s.layer_dt[l])
         THEN Outcome(s, "ValueError")
         ELSE Outcome(store_ratios(s), "none")
    ELSE IF s.layerset = {}
         THEN Outcome(s, "none")
         ELSE LET t_lcm == common_dt(dt_list(s))
              IN  IF unreasonable(t_lcm, dt_list(s))
                  THEN Outcome(s, "ValueError")
                  ELSE Outcome(store_ratios([s EXCEPT !.dt = t_lcm]), "none")

\* --------------------------------------------------------------- connect
dims_match(pre, post) == size(pre) = size_in(post)

\* connect without the test of the input / output classes
types_match_always(pre, post) == TRUE

types_match(pre, post) == output_type(pre) = input_type(post)

\* connect that leaves the new input layer in place when it raises
rollback_nothing(s, post) == s

\* except NetworkError: post_layer.pre_layer = None
rollback(s, post) == [s EXCEPT !.pre_layer[post] = None]

connect(s, pre, post) ==
    IF ~ dims_match(pre, post)
    THEN { Outcome(s, "NetworkError: dimensions") }
    ELSE IF ~ types_match(pre, post)
    THEN { Outcome(s, "NetworkError: classes") }
    ELSE LET s1 == [s EXCEPT !.pre_layer[post] = pre]
             orders == _set_evolution_order(s1)
         IN  IF orders = {}
             THEN { Outcome(rollback(s1, post), "NetworkError: order") }
             ELSE { Outcome([s1 EXCEPT !.evol_order = o], "none") : o \in orders }

\* ------------------------------------------------------------ disconnect
\* disconnect that clears the input layer whatever it is
disconnect_any(s, pre, post) ==
    IF s.pre_layer[post] = Unset
    THEN { Outcome(s, "AttributeError") }
    ELSE LET s1 == [s EXCEPT !.pre_layer[post] = None]
             orders == _set_evolution_order(s1)
         IN  IF orders = {}
             THEN { Outcome(s1, "NetworkError: order") }
             ELSE { Outcome([s1 EXCEPT !.evol_order = o], "none") : o \in orders }

disconnect(s, pre, post) ==
    IF s.pre_layer[post] = Unset
    THEN { Outcome(s, "AttributeError") }
    ELSE IF s.pre_layer[post] = pre
    THEN LET s1 == [s EXCEPT !.pre_layer[post] = None]
             orders == _set_evolution_order(s1)
         IN  IF orders = {}
             THEN { Outcome(s1, "NetworkError: order") }
             ELSE { Outcome([s1 EXCEPT !.evol_order = o], "none") : o \in orders }
    ELSE { Outcome(s, "none") }

\* ------------------------------------------------------------- add_layer
RECURSIVE fresh_name(_, _)
fresh_name(s, newname) ==
    IF hasattr(s, newname) THEN fresh_name(s, _new_name(newname)) ELSE newname

\* Lines 217-227: reset the connection attributes, register and file the layer.
register(s, lyr, newname, ext) ==
    [s EXCEPT !.name[lyr] = newname,
              !.pre_layer[lyr] = None,
              !.external_input[lyr] = ext,
              !.attrs = setattr(s, newname, lyr),
              !.layerset = s.layerset \cup {lyr}]

\* Lines 232-240, after _set_dt has returned.
wire(s, lyr, input_layer, output_layer) ==
    LET after_in == IF input_layer = None
                    THEN { Outcome(s, "none") }
                    ELSE connect(s, input_layer, lyr)
        after_out(r) == IF r.exc # "none" \/ output_layer = None
                        THEN { r }
                        ELSE connect(r.st, lyr, output_layer)
        finish(r) == IF r.exc # "none" \/ input_layer # None \/ output_layer # None
                     THEN { r }
                     ELSE LET orders == _set_evolution_order(r.st)
                          IN  IF orders = {}
                              THEN { Outcome(r.st, "NetworkError: order") }
                              ELSE { Outcome([r.st EXCEPT !.evol_order = o], "none") :
                                     o \in orders }
    IN  UNION { finish(r2) : r2 \in UNION { after_out(r1) : r1 \in after_in } }

\* add_layer without the test for the layer being registered already
add_layer_again(s, lyr, input_layer, output_layer, ext) ==
    IF ~ isclose(layer_t(s, lyr), t(s))
    THEN { Outcome(s, "AssertionError") }
    ELSE LET s1 == register(s, lyr, fresh_name(s, s.name[lyr]), ext)
             r == _set_dt(s1)
         IN  IF r.exc # "none"
             THEN { r }
             ELSE wire(r.st, lyr, input_layer, output_layer)

add_layer(s, lyr, input_layer, output_layer, ext) ==
    IF ~ isclose(layer_t(s, lyr), t(s))
    THEN { Outcome(s, "AssertionError") }
    ELSE IF hasattr(s, s.name[lyr]) /\ getattr(s, s.name[lyr]) = lyr
    THEN { Outcome(s, "none") }
    ELSE LET s1 == register(s, lyr, fresh_name(s, s.name[lyr]), ext)
             r == _set_dt(s1)
         IN  IF r.exc # "none"
             THEN { r }
             ELSE wire(r.st, lyr, input_layer, output_layer)

\* ---------------------------------------------------------- remove_layer
clear_inputs(s, del_layer) ==
    [s EXCEPT !.pre_layer = [l \in Layers |->
        IF l \in s.layerset /\ s.pre_layer[l] = del_layer THEN None ELSE s.pre_layer[l]]]

\* self._dt = self._set_dt(): _set_dt has no return value
assign_dt(s) == [s EXCEPT !.dt = None]

remove_layer(s, del_layer) ==
    LET s1 == clear_inputs(s, del_layer)
    IN  IF del_layer \notin s.layerset
        THEN { Outcome(s1, "KeyError") }
        ELSE LET r == _set_dt([s1 EXCEPT !.layerset = s1.layerset \ {del_layer}])
             IN  IF r.exc # "none"
                 THEN { r }
                 ELSE LET s2 == assign_dt(r.st)
                          orders == _set_evolution_order(s2)
                      IN  IF orders = {}
                          THEN { Outcome(s2, "NetworkError: order") }
                          ELSE { Outcome([s2 EXCEPT !.evol_order = o], "none") :
                                 o \in orders }

\* ----------------------------------------------------------- _check_sync
\* _check_sync that never finds a layer out of sync
in_sync_always(s, lyr) == TRUE

in_sync(s, lyr) == s.l_timestep[lyr] = s.timestep * s.tpn[lyr]

_check_sync(s) ==
    IF \E i \in 1..Len(s.evol_order) : s.tpn[s.evol_order[i]] = None
    THEN "AttributeError"
    ELSE IF \E i \in 1..Len(s.evol_order) : ~ in_sync(s, s.evol_order[i])
    THEN "NetworkError: sync"
    ELSE "none"

\* ---------------------------------------------------------------- evolve
ExternalIn == 0 - 2

\* By how much a layer's evolve(num_timesteps = k) may advance its own
\* _timestep: ButterMelFilter adds input_step.shape[0] - 1.
layer_advance(k) == IF k > 0 THEN {k, k - 1} ELSE {k}

\* Lines 553-566: where the current layer's input comes from
\* (Unset: signal_dict has no entry under the input layer's name).
current_input(s, lyr, signal_dict) ==
    IF s.external_input[lyr]
    THEN ExternalIn
    ELSE IF s.pre_layer[lyr] # None
    THEN IF \E e \in signal_dict : e.name = s.name[s.pre_layer[lyr]]
         THEN (CHOOSE e \in signal_dict : e.name = s.name[s.pre_layer[lyr]]).lyr
         ELSE Unset
    ELSE None

layer_steps(s, lyr, num_timesteps) == num_timesteps * s.tpn[lyr]

\* Lines 550-587: the loop over evol_order, from position i on.
RECURSIVE evolve_layers(_, _, _, _, _)
evolve_layers(s, num_timesteps, i, signal_dict, log) ==
    IF i > Len(s.evol_order)
    THEN { [st |-> s, exc |-> "none", calls |-> log] }
    ELSE LET lyr == s.evol_order[i]
             src == current_input(s, lyr, signal_dict)
             k == layer_steps(s, lyr, num_timesteps)
         IN  IF src = Unset
             THEN { [st |-> s, exc |-> "KeyError", calls |-> log] }
             ELSE UNION { evolve_layers(
                              [s EXCEPT !.l_timestep[lyr] = s.l_timestep[lyr] + adv],
                              num_timesteps, i + 1,
                              { e \in signal_dict : e.name # s.name[lyr] }
                                  \cup { [name |-> s.name[lyr], lyr |-> lyr] },
                              Append(log, [lyr |-> lyr, steps |-> k, src |-> src])) :
                          adv \in layer_advance(k) }

\* Line 590
update_time(s, num_timesteps) == [s EXCEPT !.timestep = s.timestep + num_timesteps]

evolve(s, num_timesteps) ==
    IF _check_sync(s) # "none"
    THEN { [st |-> s, exc |-> _check_sync(s), calls |-> <<>>] }
    ELSE UNION { IF r.exc # "none"
                 THEN { r }
                 ELSE LET s1 == update_time(r.st, num_timesteps)
                      IN  { [st |-> s1, exc |-> _check_sync(s1), calls |-> r.calls] } :
                 r \in evolve_layers(s, num_timesteps, 1,
                                     { [name |-> <<"external">>, lyr |-> ExternalIn] }, <<>>) }

\* ------------------------------------------------ reset_time / reset_all
\* Layer.reset_time / Layer.reset_all zero the layer's own _timestep.
reset_time(s) ==
    [s EXCEPT !.l_timestep = [l \in Layers |->
                  IF l \in s.layerset THEN 0 ELSE s.l_timestep[l]],
              !.timestep = 0]

\* reset_all that leaves the layers' own time alone
reset_all_network_only(s) == [s EXCEPT !.timestep = 0]

reset_all(s) ==
    [s EXCEPT !.l_timestep = [l \in Layers |->
                  IF l \in s.layerset THEN 0 ELSE s.l_timestep[l]],
              !.timestep = 0]

\* ------------------------------------------------------------------ train
\* nums_ts_batch is a sequence: <<>> for None, <<b>> for one value (np.size = 1),
\* longer for individual batch sizes.  num_timesteps is given by the caller.
RECURSIVE sum(_)
sum(v) == IF v = <<>> THEN 0 ELSE Head(v) + sum(Tail(v))

cumsum(v, i) == sum(SubSeq(v, 1, i))
repeat(x, n) == [i \in 1..n |-> x]
ceil_div(a, b) == (a + b - 1) \div b

\* np.repeat without the correction of the last value
uniform_batches_uncorrected(num_timesteps, num_ts_single_batch) ==
    repeat(num_ts_single_batch, ceil_div(num_timesteps, num_ts_single_batch))

\* Lines 673-676: same value for all batches
uniform_batches(num_timesteps, num_ts_single_batch) ==
    LET num_batches == ceil_div(num_timesteps, num_ts_single_batch)
        v == repeat(num_ts_single_batch, num_batches)
    IN  [v EXCEPT ![num_batches] = num_timesteps - sum(SubSeq(v, 1, num_batches - 1))]

\* Lines 681-691: make sure time steps add up to num_timesteps
add_up(num_timesteps, v) ==
    LET diff_ts == num_timesteps - sum(v)
    IN  IF diff_ts > 0 THEN Append(v, diff_ts)
        ELSE IF diff_ts < 0
        THEN LET first_idx_beyond ==
                     CHOOSE i \in 1..Len(v) :
                         /\ cumsum(v, i) > num_timesteps
                         /\ \A j \in 1..(i - 1) : cumsum(v, j) <= num_timesteps
             IN  SubSeq(v, 1, first_idx_beyond)
        ELSE v

\* Lines 653-691
v_ts_batch(num_timesteps, nums_ts_batch) ==
    add_up(num_timesteps,
           IF nums_ts_batch = <<>> THEN << num_timesteps >>
           ELSE IF Len(nums_ts_batch) = 1
           THEN uniform_batches(num_timesteps, nums_ts_batch[1])
           ELSE nums_ts_batch)

TrainEvent(ev, n, at, is_first, is_last) ==
    [ev |-> ev, n |-> n, at |-> at, is_first |-> is_first, is_last |-> is_last]

\* one batch with training_fct called ahead of the evolve call
next_batch_callback_first(s, log, batch_num, current_ts, num_batches) ==
    IF s.dt = None
    THEN { [st |-> s, exc |-> "TypeError", calls |-> <<>>, log |-> log] }
    ELSE LET called == Append(log, TrainEvent("training_fct", current_ts, s.timestep,
                                              batch_num = 0, batch_num = num_batches - 1))
         IN  { [st |-> r.st, exc |-> r.exc, calls |-> r.calls,
                log |-> Append(called, TrainEvent("evolve", current_ts, s.timestep,
                                                  FALSE, FALSE))] :
               r \in evolve(s, current_ts) }

\* Lines 698-723: one batch. The outcomes carry the log of the evolve call and
\* of the call of training_fct that follows an evolve that returned.
next_batch(s, log, batch_num, current_ts, num_batches) ==
    IF s.dt = None
    THEN { [st |-> s, exc |-> "TypeError", calls |-> <<>>, log |-> log] }
    ELSE LET evolved == Append(log, TrainEvent("evolve", current_ts, s.timestep, FALSE, FALSE))
         IN  { [st |-> r.st, exc |-> r.exc, calls |-> r.calls,
                log |-> IF r.exc # "none" THEN evolved
                        ELSE Append(evolved,
                                    TrainEvent("training_fct", current_ts, r.st.timestep,
                                               batch_num = 0, batch_num = num_batches - 1))] :
               r \in evolve(s, current_ts) }

\* ----------------------------------------------------------------- stream
\* One send to a layer's streamer moves the layer on by one network dt.
streamer_advance(s, lyr) == round_div(s.dt, s.layer_dt[lyr])

\* Lines 827, 840: l_laststate[layer_idx] is the external input of this step
\* for the first layer of the evolution order and, for every other layer, the
\* state the layer before it in the evolution order had after the step before.
stream_source(s, layer_idx) ==
    IF layer_idx = 1 THEN ExternalIn ELSE s.evol_order[layer_idx - 1]

\* Lines 830-845: the sends of one step, from position layer_idx on.
RECURSIVE stream_step(_, _, _, _)
stream_step(s, step, layer_idx, log) ==
    IF layer_idx > Len(s.evol_order)
    THEN [st |-> s, log |-> log]
    ELSE LET lyr == s.evol_order[layer_idx]
         IN  stream_step(
                 [s EXCEPT !.l_timestep[lyr] = s.l_timestep[lyr] + streamer_advance(s, lyr)],
                 step, layer_idx + 1,
                 Append(log, [lyr |-> lyr, steps |-> step,
                              src |-> stream_source(s, layer_idx)]))

\* Lines 822-859: the streaming loop, from step on.
RECURSIVE stream_loop(_, _, _, _)
stream_loop(s, num_timesteps, step, log) ==
    IF step > num_timesteps
    THEN [st |-> s, log |-> log]
    ELSE LET r == stream_step(s, step, 1, log)
         IN  stream_loop(r.st, num_timesteps, step + 1, r.log)

\* stream without the test of the layers' streaming interface
stream_unchecked(s, ts_class, num_channels, num_timesteps) ==
    LET r == stream_loop(s, num_timesteps, 1, <<>>)
    IN  { [st |-> update_time(r.st, num_timesteps), exc |-> "none", calls |-> r.log] }

\* Lines 739-891, called with num_timesteps and an input of class ts_class
\* with num_channels channels.
stream(s, ts_class, num_channels, num_timesteps) ==
    LET raise(exc) == { [st |-> s, exc |-> exc, calls |-> <<>>] }
    IN  IF \E lyr \in s.layerset : ~ has_stream(lyr)
        THEN raise("AssertionError: stream")
        ELSE IF ~ hasattr(s, <<"input_layer">>)
        THEN raise("AttributeError")
        ELSE IF ts_class # input_type(getattr(s, <<"input_layer">>))
        THEN raise("AssertionError: class")
        ELSE IF num_channels # size_in(getattr(s, <<"input_layer">>))
        THEN raise("AssertionError: size")
        ELSE IF s.dt = None
        THEN raise("TypeError")
        ELSE IF \E i \in 1..Len(s.evol_order) : ~ has_stream(s.evol_order[i])
        THEN raise("AttributeError")
        ELSE LET r == stream_loop(s, num_timesteps, 1, <<>>)
             IN  { [st |-> update_time(r.st, num_timesteps), exc |-> "none",
                    calls |-> r.log] }

\* --------------------------------------------------------------- __init__
\* Lines 127-139: the new Network before its layers are added.
new_network(s, forced) ==
    [s EXCEPT !.layerset = {}, !.attrs = {}, !.timestep = 0, !.dt = forced,
              !.force_dt = (forced # None), !.evol_order = <<>>]

\* the constructor giving every further layer the first layer as input_layer
RECURSIVE add_in_series_to_first(_, _, _)
add_in_series_to_first(r, layers, i) ==
    IF r.exc # "none" \/ i > Len(layers)
    THEN { r }
    ELSE UNION { add_in_series_to_first(r1, layers, i + 1) :
                 r1 \in IF i = 1
                        THEN add_layer(r.st, layers[1], None, None, TRUE)
                        ELSE add_layer(r.st, layers[i], layers[1], None, FALSE) }

\* Line 143: self.input_layer = self.add_layer(layers[0], external_input=True)
first_layer(s, lyr) ==
    { IF r.exc # "none"
      THEN r
      ELSE Outcome([r.st EXCEPT !.attrs = setattr(r.st, <<"input_layer">>, lyr)], "none") :
      r \in add_layer(s, lyr, None, None, TRUE) }

\* Lines 141-152: add_layer(layers[0], external_input=True), then every
\* further layer with the layer before it as input_layer.
RECURSIVE add_in_series(_, _, _)
add_in_series(r, layers, i) ==
    IF r.exc # "none" \/ i > Len(layers)
    THEN { r }
    ELSE UNION { add_in_series(r1, layers, i + 1) :
                 r1 \in IF i = 1
                        THEN first_layer(r.st, layers[1])
                        ELSE add_layer(r.st, layers[i], layers[i - 1], None, FALSE) }

\* Line 155: self.output_layer = recent_layer
last_layer(r, layers) ==
    IF r.exc # "none" \/ layers = <<>>
    THEN r
    ELSE Outcome([r.st EXCEPT !.attrs = setattr(r.st, <<"output_layer">>,
                                                layers[Len(layers)])], "none")

__init__(s, layers, forced) ==
    { last_layer(r, layers) :
      r \in add_in_series(Outcome(new_network(s, forced), "none"), layers, 1) }

\* ------------------------------------------------------------ save / load
\* Layer.to_dict: the arguments the layer is constructed from again.
to_dict(s, lyr) == [class_name |-> Slot(lyr), name |-> s.name[lyr], dt |-> s.layer_dt[lyr]]

\* Lines 971-981: the layers in evolution order, and dt when it is forced.
save(s) ==
    [layers |-> [i \in 1..Len(s.evol_order) |-> to_dict(s, s.evol_order[i])],
     order |-> s.evol_order,
     dt |-> IF s.force_dt THEN s.dt ELSE None]

\* cls_layer.load_from_dict: a new layer object. The object made from the
\* dictionary of layer lyr is written lyr again.
load_from_dict(s, lyr, config) ==
    [s EXCEPT !.name[lyr] = config.name,
              !.layer_dt[lyr] = config.dt,
              !.pre_layer[lyr] = Unset,
              !.external_input[lyr] = FALSE,
              !.l_timestep[lyr] = 0,
              !.tpn[lyr] = None]

RECURSIVE load_layers(_, _, _)
load_layers(s, savedict, i) ==
    IF i > Len(savedict.layers)
    THEN s
    ELSE load_layers(load_from_dict(s, savedict.order[i], savedict.layers[i]), savedict, i + 1)

\* Lines 984-1001
load(s, savedict) == __init__(load_layers(s, savedict, 1), savedict.order, savedict.dt)

\* ---------------------------------------------------- the state machine
\* No call of train yet.
NoTraining ==
    /\ training = [running |-> FALSE, num_timesteps |-> None, nums_ts_batch |-> <<>>,
                   v_ts_batch |-> <<>>, batch_num |-> 0]
    /\ train_log = <<>>

\* Freshly constructed layer objects and a Network without layers.
FreshLayers ==
    /\ name = [l \in Layers |-> init_name(l)]
    /\ pre_layer = [l \in Layers |-> Unset]
    /\ external_input = [l \in Layers |-> FALSE]
    /\ l_timestep = [l \in Layers |-> 0]
    /\ tpn = [l \in Layers |-> None]

\* Network(dt = forced)
EmptyNetwork(forced) ==
    /\ layerset = {}
    /\ attrs = {}
    /\ timestep = 0
    /\ dt = forced
    /\ force_dt = (forced # None)
    /\ evol_order = <<>>

Init ==
    /\ FreshLayers
    /\ layer_dt = [l \in Layers |-> init_dt(l)]
    /\ EmptyNetwork(None)
    /\ last = Call("__init__", None, None, "none")
    /\ calls = <<>>
    /\ NoTraining

\* The layers the caller may flag as receiving the external input.
ExtLayers == {1}

AddLayer(pool, ext_pool) ==
    \E lyr \in pool, input_layer \in pool \cup {None},
       output_layer \in pool \cup {None}, ext \in BOOLEAN :
        /\ ext => lyr \in ext_pool
        /\ \E r \in add_layer(State, lyr, input_layer, output_layer, ext) :
               /\ Install(r.st)
               /\ last' = Call("add_layer", lyr, None, r.exc)
               /\ calls' = <<>>
               /\ UNCHANGED <<training, train_log>>

RemoveLayer(pool) ==
    \E del_layer \in pool :
        \E r \in remove_layer(State, del_layer) :
            /\ Install(r.st)
            /\ last' = Call("remove_layer", del_layer, None, r.exc)
            /\ calls' = <<>>
            /\ UNCHANGED <<training, train_log>>

Connect(pool) ==
    \E pre \in pool, post \in pool :
        \E r \in connect(State, pre, post) :
            /\ Install(r.st)
            /\ last' = Call("connect", pre, post, r.exc)
            /\ calls' = <<>>
            /\ UNCHANGED <<training, train_log>>

Disconnect(pool) ==
    \E pre \in pool, post \in pool :
        \E r \in disconnect(State, pre, post) :
            /\ Install(r.st)
            /\ last' = Call("disconnect", pre, post, r.exc)
            /\ calls' = <<>>
            /\ UNCHANGED <<training, train_log>>

Evolve ==
    \E num_timesteps \in 1..MaxSteps :
        /\ timestep + num_timesteps <= MaxTimestep
        /\ \E r \in evolve(State, num_timesteps) :
            /\ Install(r.st)
            /\ last' = Call("evolve", num_timesteps, None, r.exc)
            /\ calls' = r.calls
            /\ UNCHANGED <<training, train_log>>

ResetTime ==
    /\ Install(reset_time(State))
    /\ last' = Call("reset_time", None, None, "none")
    /\ calls' = <<>>
    /\ UNCHANGED <<training, train_log>>

ResetAll ==
    /\ Install(reset_all(State))
    /\ last' = Call("reset_all", None, None, "none")
    /\ calls' = <<>>
    /\ UNCHANGED <<training, train_log>>

\* The structural operations, on every layer object of the pool.
Next ==
    \/ AddLayer(Layers, ExtLayers)
    \/ RemoveLayer(Layers)
    \/ Connect(Layers)
    \/ Disconnect(Layers)

Spec == Init /\ [][Next]_vars

\* Structure and time: a caller holding the layers RunLayers.
NextEvolve ==
    \/ AddLayer(RunLayers, RunLayers)
    \/ RemoveLayer(RunLayers)
    \/ Connect(RunLayers)
    \/ Disconnect(RunLayers)
    \/ Evolve
    \/ ResetTime
    \/ ResetAll

SpecEvolve == Init /\ [][NextEvolve]_vars

\* ------------------------------------- _set_evolution_order on its own
\* Any layer set and any input-layer assignment, cyclic ones included.
InitOrder ==
    /\ name = [l \in Layers |-> init_name(l)]
    /\ external_input = [l \in Layers |-> FALSE]
    /\ l_timestep = [l \in Layers |-> 0]
    /\ tpn = [l \in Layers |-> None]
    /\ layer_dt = [l \in Layers |-> init_dt(l)]
    /\ pre_layer \in [Layers -> Layers \cup {None}]
    /\ layerset \in SUBSET Layers
    /\ attrs = {}
    /\ timestep = 0
    /\ dt = None
    /\ force_dt = FALSE
    /\ evol_order = <<>>
    /\ last = Call("__init__", None, None, "none")
    /\ calls = <<>>
    /\ NoTraining

SetEvolutionOrder ==
    LET orders == _set_evolution_order(State)
    IN  /\ IF orders = {}
           THEN /\ evol_order' = evol_order
                /\ last' = Call("_set_evolution_order", None, None, "NetworkError: order")
           ELSE /\ evol_order' \in orders
                /\ last' = Call("_set_evolution_order", None, None, "none")
        /\ UNCHANGED <<layerset, attrs, name, layer_dt, pre_layer, external_input,
                       l_timestep, tpn, timestep, dt, force_dt, calls,
                       training, train_log>>

NextOrder == SetEvolutionOrder

SpecOrder == InitOrder /\ [][NextOrder]_vars

\* -------------------------------------------------------------- training
\* What the caller passes as nums_ts_batch.
BatchChoices ==
    { <<>> } \cup { << b >> : b \in 1..MaxBatch }
             \cup { << b1, b2 >> : b1 \in 1..MaxBatch, b2 \in 1..MaxBatch }

\* train up to the first batch: lines 632-696
TrainStart ==
    \E num_timesteps \in 1..MaxTrainSteps, nums_ts_batch \in BatchChoices :
        /\ ~ training.running
        /\ timestep + num_timesteps <= MaxTrainSteps
        /\ training' = [running |-> TRUE, num_timesteps |-> num_timesteps,
                        nums_ts_batch |-> nums_ts_batch,
                        v_ts_batch |-> v_ts_batch(num_timesteps, nums_ts_batch),
                        batch_num |-> 0]
        /\ train_log' = <<>>
        /\ last' = Call("train", num_timesteps, None, "running")
        /\ calls' = <<>>
        /\ Install(State)

\* One iteration of the loop of line 731; train returns after the last batch
\* and ends with the exception of a batch that raises.
TrainBatch ==
    /\ training.running
    /\ LET num_batches == Len(training.v_ts_batch)
           current_ts == training.v_ts_batch[training.batch_num + 1]
       IN  \E r \in next_batch(State, train_log, training.batch_num, current_ts, num_batches) :
               /\ Install(r.st)
               /\ calls' = r.calls
               /\ train_log' = r.log
               /\ IF r.exc # "none"
                  THEN /\ training' = [training EXCEPT !.running = FALSE]
                       /\ last' = Call("train", training.num_timesteps, None, r.exc)
                  ELSE /\ training' = [training EXCEPT
                                          !.batch_num = training.batch_num + 1,
                                          !.running = (training.batch_num + 1 < num_batches)]
                       /\ last' = Call("train", training.num_timesteps, None,
                                       IF training.batch_num + 1 < num_batches
                                       THEN "running" ELSE "none")

\* A caller that builds a network from the layers RunLayers and then trains it.
NextTrain ==
    \/ (training.num_timesteps = None /\ AddLayer(RunLayers, RunLayers))
    \/ TrainStart
    \/ TrainBatch

SpecTrain == Init /\ [][NextTrain]_vars

\* ----------------------------------------------------------- construction
\* The lists of distinct layer objects a Network is constructed from.
LayerLists ==
    UNION { { q \in [1..n -> Layers] : \A i, j \in 1..n : i # j => q[i] # q[j] } :
            n \in 0..NumLayers }

\* The dt argument of the constructor: none, or a forced value.
ConstructDts == {None, 402000}

\* A constructor that raises returns no Network: the caller keeps the one it
\* has, and the layers keep what add_layer did to them.
keep_network(old, new) ==
    [new EXCEPT !.layerset = old.layerset, !.attrs = old.attrs,
                !.timestep = old.timestep, !.dt = old.dt,
                !.force_dt = old.force_dt, !.evol_order = old.evol_order]

\* net = Network(*layers, dt=forced)
Construct ==
    \E layers \in LayerLists, forced \in ConstructDts :
        \E r \in __init__(State, layers, forced) :
            /\ Install(IF r.exc = "none" THEN r.st ELSE keep_network(State, r.st))
            /\ last' = Call("__init__", layers, forced, r.exc)
            /\ calls' = <<>>
            /\ UNCHANGED <<training, train_log>>

NextConstruct == Construct

SpecConstruct == Init /\ [][NextConstruct]_vars

\* A network constructed with a forced dt and no layers: Network(dt=forced).
InitForced ==
    /\ FreshLayers
    /\ layer_dt = [l \in Layers |-> init_dt(l)]
    /\ \E forced \in ForcedDts : EmptyNetwork(forced)
    /\ last = Call("__init__", None, None, "none")
    /\ calls = <<>>
    /\ NoTraining

\* The structural operations of a caller holding the layers RunLayers.
NextForced ==
    \/ AddLayer(RunLayers, ExtLayers)
    \/ RemoveLayer(RunLayers)
    \/ Connect(RunLayers)
    \/ Disconnect(RunLayers)

SpecForced == InitForced /\ [][NextForced]_vars

\* ------------------------------------------------------------ persistence
\* net.save(f); net = Network.load(f): the caller goes on with the loaded
\* network; a load that raises leaves the caller with the network it had.
SaveLoad ==
    \E r \in load(State, save(State)) :
        /\ Install(IF r.exc = "none" THEN r.st ELSE State)
        /\ last' = Call("load", None, None, r.exc)
        /\ calls' = <<>>
        /\ UNCHANGED <<training, train_log>>

\* A caller that builds a network with add_layer and connect and saves it.
NextPersist ==
    \/ AddLayer(Layers, ExtLayers)
    \/ Connect(Layers)
    \/ SaveLoad

SpecPersist == Init /\ [][NextPersist]_vars

\* ------------------------------------------------------------- streaming
\* The classes and channel numbers of the input handed to stream.
TsClasses == {"TSContinuous", "TSEvent"}
TsChannels == {2, 3}

Stream ==
    \E ts_class \in TsClasses, num_channels \in TsChannels, num_timesteps \in 1..MaxSteps :
        /\ timestep + num_timesteps <= MaxTimestep
        /\ \E r \in stream(State, ts_class, num_channels, num_timesteps) :
            /\ Install(r.st)
            /\ last' = Call("stream", num_timesteps, None, r.exc)
            /\ calls' = r.calls
            /\ UNCHANGED <<training, train_log>>

\* net = Network(*layers) of fresh layers, for every list of layers the
\* constructor accepts.
InitStream ==
    /\ layer_dt = [l \in Layers |-> init_dt(l)]
    /\ \E layers \in LayerLists :
           \E r \in __init__([layerset |-> {}, attrs |-> {},
                              name |-> [l \in Layers |-> init_name(l)],
                              layer_dt |-> [l \in Layers |-> init_dt(l)],
                              pre_layer |-> [l \in Layers |-> Unset],
                              external_input |-> [l \in Layers |-> FALSE],
                              l_timestep |-> [l \in Layers |-> 0],
                              tpn |-> [l \in Layers |-> None],
                              timestep |-> 0, dt |-> None, force_dt |-> FALSE,
                              evol_order |-> <<>>], layers, None) :
               /\ r.exc = "none"
               /\ layerset = r.st.layerset
               /\ attrs = r.st.attrs
               /\ name = r.st.name
               /\ pre_layer = r.st.pre_layer
               /\ external_input = r.st.external_input
               /\ l_timestep = r.st.l_timestep
               /\ tpn = r.st.tpn
               /\ timestep = r.st.timestep
               /\ dt = r.st.dt
               /\ force_dt = r.st.force_dt
               /\ evol_order = r.st.evol_order
               /\ last = Call("__init__", layers, None, "none")
    /\ calls = <<>>
    /\ NoTraining

\* A caller that constructs a network, adds layers to it and streams.
NextStream ==
    \/ AddLayer(Layers, ExtLayers)
    \/ Stream

SpecStream == InitStream /\ [][NextStream]_vars

\* ------------------------------------------------------ _set_dt on its own
\* The time steps layers are constructed with in the runs of _set_dt.
DtValues == {2000, 2010, 5000, 10000, 402000}

InitDt ==
    /\ FreshLayers
    /\ layer_dt \in [Layers -> DtValues]
    /\ layerset \in SUBSET Layers
    /\ attrs = {}
    /\ timestep = 0
    /\ dt = None
    /\ force_dt = FALSE
    /\ evol_order = <<>>
    /\ last = Call("__init__", None, None, "none")
    /\ calls = <<>>
    /\ NoTraining

SetDt ==
    LET r == _set_dt(State)
    IN  /\ Install(r.st)
        /\ last' = Call("_set_dt", None, None, r.exc)
        /\ calls' = <<>>
        /\ UNCHANGED <<training, train_log>>

NextDt == SetDt

SpecDt == InitDt /\ [][NextDt]_vars

\* ============================================================ properties
\* order lists every layer of lyrs exactly once
IsOrderOf(order, lyrs) ==
    /\ Len(order) = Cardinality(lyrs)
    /\ \A l \in lyrs : \E i \in 1..Len(order) : order[i] = l

\* every layer whose input layer is listed comes after it
RespectsInputs(order, pl) ==
    \A i \in 1..Len(order), j \in 1..Len(order) : order[j] = pl[order[i]] => j < i

\* the layer reached from l by k steps along the input layers, inside lyrs
RECURSIVE Walk(_, _, _, _)
Walk(lyrs, pl, l, k) ==
    IF k = 0 THEN l
    ELSE IF l \notin lyrs THEN None
    ELSE Walk(lyrs, pl, pl[l], k - 1)

HasCycle(lyrs, pl) ==
    \E l \in lyrs : \E k \in 1..Cardinality(lyrs) : Walk(lyrs, pl, l, k) = l

RECURSIVE GcdOf(_)
GcdOf(S) ==
    IF S = {} THEN 0
    ELSE LET x == CHOOSE y \in S : TRUE IN gcd(x, GcdOf(S \ {x}))

\* D is the least common multiple of the numbers dts
IsLcm(D, dts) ==
    /\ D > 0
    /\ \A d \in dts : D % d = 0
    /\ GcdOf({ D \div d : d \in dts }) = 1

MaxOf(S) == CHOOSE x \in S : \A y \in S : y <= x
MemberDts == { layer_dt[l] : l \in layerset }

\* every layer of the evolution order has its ratio and is in sync
InSyncNow ==
    \A i \in 1..Len(evol_order) :
        /\ tpn[evol_order[i]] # None
        /\ l_timestep[evol_order[i]] = timestep * tpn[evol_order[i]]

OutOfSyncNow ==
    \E i \in 1..Len(evol_order) :
        l_timestep[evol_order[i]] # timestep * tpn[evol_order[i]]

\* C1: when evolve returns normally every layer of the evolution order has
\* _timestep = network _timestep * _timesteps_per_network_dt, and when a layer
\* deviates after all layers were evolved, evolve raises NetworkError.
C1_EvolveLeavesInSync ==
    last.op = "evolve" =>
        /\ last.exc = "none" => InSyncNow
        /\ (Len(calls) = Len(evol_order) /\ OutOfSyncNow) => last.exc = "NetworkError: sync"

C1_Witness ==
    /\ last.op = "evolve"
    /\ last.exc = "none"
    /\ Len(evol_order) = 2
    /\ timestep = 2
    /\ \E i \in 1..Len(evol_order) : tpn[evol_order[i]] > 1

\* C2: for an acyclic input-layer relation, _set_evolution_order returns a list
\* holding every member layer exactly once, each layer after its input layer,
\* whichever candidate the set hands out first.
C2_OrderIsTopological ==
    (last.op = "_set_evolution_order" /\ ~ HasCycle(layerset, pre_layer)) =>
        /\ last.exc = "none"
        /\ IsOrderOf(evol_order, layerset)
        /\ RespectsInputs(evol_order, pre_layer)

C2_Witness ==
    /\ last.op = "_set_evolution_order"
    /\ last.exc = "none"
    /\ layerset = Layers
    /\ \E l \in Layers : pre_layer[l] # None /\ pre_layer[pre_layer[l]] # None

\* C3: a connect that would close a cycle raises NetworkError and leaves the
\* input layer of every layer, the target included, as it was before the call.
WouldCycle(pre, post) ==
    /\ size(pre) = size_in(post)
    /\ output_type(pre) = input_type(post)
    /\ HasCycle(layerset, [pre_layer EXCEPT ![post] = pre])

C3_ConnectCycleLeavesInputs ==
    [][(last'.op = "connect" /\ WouldCycle(last'.a, last'.b)) =>
           (last'.exc = "NetworkError: order" /\ pre_layer' = pre_layer)]_vars

\* C4: on a network in sync, evolve(num_timesteps = n) calls the evolve of every
\* layer of the evolution order once, in order, with n * _timesteps_per_network_dt
\* steps, and then adds n to the network _timestep.
C4_EvolveCallsEveryLayer ==
    [][(last'.op = "evolve" /\ InSyncNow) =>
           /\ Len(calls') = Len(evol_order)
           /\ \A i \in 1..Len(evol_order) :
                  /\ calls'[i].lyr = evol_order[i]
                  /\ calls'[i].steps = last'.a * tpn[evol_order[i]]
           /\ timestep' = timestep + last'.a]_vars

\* C5 as stated: for every non-empty set of layer time steps, _set_dt succeeds
\* and sets dt to a multiple D of every layer dt with D <= max_factor * max(dt_i).
C5_SetDtAlwaysSucceeds ==
    (last.op = "_set_dt" /\ layerset # {}) =>
        /\ last.exc = "none"
        /\ dt # None
        /\ \A d \in MemberDts : dt % d = 0
        /\ dt <= max_factor * MaxOf(MemberDts)

\* some multiple of the largest time step, up to max_factor times it, is a
\* multiple of every time step
HasReasonableMultiple(dts) ==
    \E k \in 1..max_factor : \A d \in dts : (k * MaxOf(dts)) % d = 0

\* C5 amended: when the layer time steps have a common multiple of at most
\* max_factor * max(dt_i), _set_dt succeeds and sets dt to a multiple D of every
\* layer dt with D <= max_factor * max(dt_i); otherwise it raises ValueError and
\* leaves dt as it was.
C5_SetDtWithinFactor ==
    (last.op = "_set_dt" /\ layerset # {}) =>
        IF HasReasonableMultiple(MemberDts)
        THEN /\ last.exc = "none"
             /\ dt # None
             /\ \A d \in MemberDts : dt % d = 0
             /\ dt <= max_factor * MaxOf(MemberDts)
        ELSE /\ last.exc = "ValueError"
             /\ dt = None

C5_Witness ==
    /\ last.op = "_set_dt"
    /\ last.exc = "none"
    /\ Cardinality(MemberDts) >= 2
    /\ \A d \in MemberDts : dt > d

\* C6: in every state reached by add_layer, remove_layer, connect and
\* disconnect calls, a non-empty network has a dt, and it is an exact multiple
\* of the dt of every member layer.
C6_DtIsCommonMultiple ==
    layerset # {} => (dt # None /\ \A d \in MemberDts : dt % d = 0)

\* C7: connect of layers whose size / size_in or output / input classes differ
\* raises NetworkError and changes neither an input layer nor the evolution
\* order.
C7_ConnectMismatchChangesNothing ==
    [][(/\ last'.op = "connect"
        /\ \/ size(last'.a) # size_in(last'.b)
           \/ output_type(last'.a) # input_type(last'.b)) =>
           /\ last'.exc \in {"NetworkError: dimensions", "NetworkError: classes"}
           /\ pre_layer' = pre_layer
           /\ evol_order' = evol_order
           /\ layerset' = layerset]_vars

C7_Witness ==
    /\ last.op = "connect"
    /\ last.exc = "NetworkError: classes"
    /\ last.b \in layerset
    /\ pre_layer[last.b] = None
    /\ Len(evol_order) = 2

\* C8: after remove_layer(L) on a network without forced dt, L is no member, no
\* member has L as input layer, the evolution order is a valid order of the
\* remaining layers and dt is the least common multiple of their time steps.
C8_RemoveLayerRecomputes ==
    [][(last'.op = "remove_layer" /\ last'.exc = "none" /\ ~ force_dt) =>
           /\ layerset' = layerset \ {last'.a}
           /\ \A l \in layerset' : pre_layer'[l] # last'.a
           /\ IsOrderOf(evol_order', layerset')
           /\ RespectsInputs(evol_order', pre_layer')
           /\ layerset' # {} => IsLcm(dt', { layer_dt[l] : l \in layerset' })]_vars

\* the first name, from n on along _new_name, that is not taken
RECURSIVE FirstFree(_, _)
FirstFree(n, taken) == IF n \in taken THEN FirstFree(_new_name(n), taken) ELSE n

\* C9: member layers bear pairwise distinct names, and add_layer of a layer
\* whose name a member bears renames it to the first name of the _0, _1, ...
\* sequence that no current member bears.
C9_RenamedToFirstFreeName ==
    [][/\ \A l, m \in layerset' : l # m => name'[l] # name'[m]
       /\ (/\ last'.op = "add_layer"
           /\ last'.a \notin layerset
           /\ last'.a \in layerset'
           /\ \E m \in layerset : name[m] = name[last'.a]) =>
              name'[last'.a] = FirstFree(name[last'.a], { name[m] : m \in layerset })]_vars

TrainEvolves == SelectSeq(train_log, LAMBDA e : e.ev = "evolve")
TrainCallbacks == SelectSeq(train_log, LAMBDA e : e.ev = "training_fct")

\* C10: train with num_timesteps N > 0 and one batch size b runs
\* ceil(N / b) batches, each of b steps but the last, which has N minus the sum
\* of the others; training_fct is called once per batch, with is_first on the
\* first call only and is_last on the last call only.
C10_UniformBatches ==
    (training.num_timesteps # None /\ Len(training.nums_ts_batch) = 1) =>
        LET N == training.num_timesteps
            b == training.nums_ts_batch[1]
            k == IF N % b = 0 THEN N \div b ELSE N \div b + 1
        IN  /\ Len(TrainEvolves) <= k
            /\ \A i \in 1..Len(TrainEvolves) :
                   TrainEvolves[i].n = IF i < k THEN b ELSE N - (k - 1) * b
            /\ Len(TrainCallbacks) \in { Len(TrainEvolves), Len(TrainEvolves) - 1 }
            /\ \A i \in 1..Len(TrainCallbacks) :
                   /\ TrainCallbacks[i].is_first = (i = 1)
                   /\ TrainCallbacks[i].is_last = (i = k)
            /\ (last.op = "train" /\ last.exc = "none") =>
                   (Len(TrainEvolves) = k /\ Len(TrainCallbacks) = k)

C10_Witness ==
    /\ last.op = "train"
    /\ last.exc = "none"
    /\ training.num_timesteps = 5
    /\ training.nums_ts_batch = << 2 >>
    /\ Len(TrainCallbacks) = 3
    /\ Len(evol_order) = 2

\* C11: in every batch sizing mode (one batch, one batch size, individual
\* batch sizes summing to less than, exactly or more than num_timesteps) the
\* batches a train that returns has run sum to exactly num_timesteps, and the
\* network _timestep has advanced by exactly num_timesteps.
C11_BatchesSumToTotal ==
    (last.op = "train" /\ last.exc = "none") =>
        /\ sum([i \in 1..Len(TrainEvolves) |-> TrainEvolves[i].n]) = training.num_timesteps
        /\ timestep = TrainEvolves[1].at + training.num_timesteps

\* what save writes for the layers of the network
SavedLayers == save(State).layers

\* C12: for every network built with add_layer and connect, save followed by
\* load succeeds, and the loaded network has the same sequence of layer names
\* in its evolution order and the same layer configurations.
C12_SaveLoadRoundTrip ==
    [][last'.op = "load" =>
           /\ last'.exc = "none"
           /\ SavedLayers' = SavedLayers]_vars

\* C13: reset_all is idempotent. After reset_all the network _timestep is 0,
\* every member layer has t = 0, the layer set, input layers, evolution order
\* and dt are as before, and one more reset_all leaves that state as it is.
C13_ResetAllIdempotent ==
    [][last'.op = "reset_all" =>
           /\ timestep' = 0
           /\ \A l \in layerset' : l_timestep'[l] * layer_dt'[l] = 0
           /\ layerset' = layerset
           /\ pre_layer' = pre_layer
           /\ evol_order' = evol_order
           /\ dt' = dt
           /\ reset_all(State') = State']_vars

C13_Witness ==
    /\ last.op = "reset_all"
    /\ Len(evol_order) = 2
    /\ \E l \in layerset : tpn[l] > 1
    /\ timestep = 0
    /\ \A l \in layerset : l_timestep[l] = 0

\* each layer of the list fits the one before it, and the time steps fit the
\* forced dt or, without one, have a common multiple within max_factor
Compatible(layers, forced) ==
    /\ \A i \in 2..Len(layers) :
           /\ size(layers[i - 1]) = size_in(layers[i])
           /\ output_type(layers[i - 1]) = input_type(layers[i])
    /\ IF forced = None
       THEN Len(layers) > 0 => HasReasonableMultiple({ layer_dt[layers[i]] : i \in 1..Len(layers) })
       ELSE \A i \in 1..Len(layers) : forced % layer_dt[layers[i]] = 0

\* C14: Network(L1, ..., Ln) of distinct layers that fit one another has the
\* layer set {L1..Ln}; L1 has no input layer and is the only layer that gets
\* the external input, each further layer has the layer before it as input
\* layer, and the evolution order is L1, ..., Ln.
C14_ConstructorChain ==
    [][(last'.op = "__init__" /\ Compatible(last'.a, last'.b)) =>
           LET layers == last'.a
           IN  /\ last'.exc = "none"
               /\ layerset' = { layers[i] : i \in 1..Len(layers) }
               /\ evol_order' = layers
               /\ \A i \in 1..Len(layers) :
                      /\ pre_layer'[layers[i]] = IF i = 1 THEN None ELSE layers[i - 1]
                      /\ external_input'[layers[i]] = (i = 1)]_vars

C14_Witness ==
    /\ last.op = "__init__"
    /\ last.exc = "none"
    /\ last.b = None
    /\ Len(evol_order) = 3
    /\ layerset = Layers

\* C15: in every state between add_layer, remove_layer, connect and
\* disconnect calls, returned or raised, the input-layer relation among the
\* member layers has no cycle.
C15_NoCycleAmongMembers == ~ HasCycle(layerset, pre_layer)

C15_Witness ==
    /\ last.op = "connect"
    /\ last.exc = "NetworkError: order"
    /\ last.b \in layerset
    /\ \E l \in layerset : pre_layer[l] \in layerset

\* C16: after every add_layer, remove_layer, connect or disconnect call,
\* returned or raised, the stored evolution order lists every member layer
\* exactly once, each after its input layer when that is a member.
C16_OrderMatchesLayerSet ==
    /\ IsOrderOf(evol_order, layerset)
    /\ RespectsInputs(evol_order, pre_layer)

\* C17: a network constructed with a forced dt keeps that dt through every
\* add_layer, remove_layer, connect and disconnect call, and add_layer of a
\* layer, not yet registered, whose dt does not divide the forced dt raises.
C17_ForcedDtKept ==
    [][force_dt =>
           /\ dt' = dt
           /\ (/\ last'.op = "add_layer"
               /\ getattr(State, name[last'.a]) # last'.a
               /\ dt # None
               /\ dt % layer_dt[last'.a] # 0) =>
                  last'.exc # "none"]_vars

\* the layer is the object the network holds as an attribute under its name
Registered(l) == [name |-> name[l], lyr |-> l] \in attrs

\* C18: add_layer of the very object that is registered in the network under
\* its name returns without an error and changes nothing: layer set, input
\* layers, external-input flags, names, evolution order, dt and _timestep stay,
\* whatever input_layer and output_layer are passed.
C18_AddRegisteredLayerIsNoOp ==
    [][(last'.op = "add_layer" /\ Registered(last'.a)) =>
           /\ last'.exc = "none"
           /\ layerset' = layerset
           /\ attrs' = attrs
           /\ name' = name
           /\ pre_layer' = pre_layer
           /\ external_input' = external_input
           /\ evol_order' = evol_order
           /\ dt' = dt
           /\ timestep' = timestep]_vars

C18_Witness ==
    /\ last.op = "add_layer"
    /\ last.exc = "none"
    /\ Registered(last.a)
    /\ last.a \notin layerset
    /\ layerset # {}

C28_InputLayerIsMember ==
    \A l \in layerset : pre_layer[l] = None \/ pre_layer[l] \in layerset

\* C27: a layer that was removed with remove_layer can be added again. When
\* remove_layer(L) has returned and the next call is add_layer(L), at matching
\* time, and returns, L is a member of the layer set, appears in the evolution
\* order and has the name it had.
C27_RemovedLayerCanBeAddedAgain ==
    [][(/\ last.op = "remove_layer"
        /\ last.exc = "none"
        /\ last'.op = "add_layer"
        /\ last'.a = last.a
        /\ last'.exc = "none") =>
           /\ last.a \in layerset'
           /\ \E i \in 1..Len(evol_order') : evol_order'[i] = last.a
           /\ name'[last.a] = name[last.a]]_vars

\* C30: when evolve raises, whether in the check before the layers run, in
\* the loop over the layers or in the check after it, the network _timestep
\* is the one before the call.
C30_RaisingEvolveKeepsTimestep ==
    [][(last'.op = "evolve" /\ last'.exc # "none") => timestep' = timestep]_vars

\* Network.t of the state before and after a step
NetworkTime == t(State)

\* C26: add_layer preserves synchrony. When every member layer is in sync with
\* the network before an add_layer that returns, at any network _timestep and
\* whether or not the common dt changes, then after it every member layer,
\* the new one included, has _timestep = network _timestep *
\* _timesteps_per_network_dt, and the network time t is the one before.
C26_AddLayerPreservesSync ==
    [][(/\ last'.op = "add_layer"
        /\ last'.exc = "none"
        /\ \A l \in layerset : tpn[l] # None /\ in_sync(State, l)) =>
           /\ \A l \in layerset' : tpn'[l] # None /\ in_sync(State', l)
           /\ NetworkTime' = NetworkTime]_vars

\* the member time steps once layer lyr has been added
DtsWith(lyr) == MemberDts \cup { layer_dt[lyr] }

\* C25: for a network without forced dt, every add_layer that returns leaves
\* dt the exact least common multiple of the dt of all member layers and
\* every member's _timesteps_per_network_dt equal to dt / layer dt; add_layer
\* raises ValueError exactly when that least common multiple exceeds
\* max_factor (100) times the largest member dt.
C25_AddLayerSetsLcm ==
    [][(last'.op = "add_layer" /\ ~ force_dt) =>
           /\ (last'.exc = "none" /\ layerset' # {}) =>
                  /\ dt' # None
                  /\ IsLcm(dt', MemberDts')
                  /\ \A l \in layerset' : tpn'[l] * layer_dt'[l] = dt'
           /\ last'.exc = "ValueError" <=> ~ HasReasonableMultiple(DtsWith(last'.a))]_vars

\* the name of a layer's input layer (None: no input layer)
InputName(l) == IF pre_layer[l] = None THEN None ELSE name[pre_layer[l]]

\* C29: save followed by load preserves the connectivity. In the network a
\* load has returned, every layer has the input layer with the same name as in
\* the saved network, or none when it had none, and the same layers are
\* flagged as receiving the external input.
C29_SaveLoadKeepsConnectivity ==
    [][(last'.op = "load" /\ last'.exc = "none") =>
           /\ layerset' = layerset
           /\ \A l \in layerset :
                  /\ InputName(l)' = InputName(l)
                  /\ external_input'[l] = external_input[l]]_vars

\* the input the layer at position i of the evolution order is to receive
RightInput(i) ==
    LET lyr == evol_order[i]
    IN  IF external_input[lyr]
        THEN calls'[i].src = ExternalIn
        ELSE IF pre_layer[lyr] # None
        THEN /\ calls'[i].src = pre_layer[lyr]
             /\ \E j \in 1..(i - 1) : calls'[j].lyr = pre_layer[lyr]
        ELSE calls'[i].src = None

\* C22: within one evolve call of a network whose layers are in sync, the
\* layers are evolved one at a time in evolution order; a layer flagged
\* external-input receives the external input, also when it has an input
\* layer, a layer not flagged receives the output its input layer has
\* produced earlier in this evolve call, and a layer with neither receives
\* no input.
C22_EvolveRoutesInputs ==
    [][(last'.op = "evolve" /\ InSyncNow) =>
           \A i \in 1..Len(evol_order) :
               /\ i <= Len(calls')
               /\ calls'[i].lyr = evol_order[i]
               /\ RightInput(i)]_vars

\* C23: in train the events of every batch k come in the order evolve(batch k),
\* then training_fct for batch k, called once that evolve has returned, then
\* evolve(batch k + 1); no evolve of a later batch begins before the callback
\* of the batch before it, and every batch's evolve starts at the network
\* time at which the batch before it ended.
C23_BatchesInSequence ==
    \A i \in 1..Len(train_log) :
        IF i % 2 = 1
        THEN /\ train_log[i].ev = "evolve"
             /\ i > 1 => train_log[i].at = train_log[i - 1].at
        ELSE /\ train_log[i].ev = "training_fct"
             /\ train_log[i].n = train_log[i - 1].n
             /\ train_log[i].at = train_log[i - 1].at + train_log[i].n

C23_Witness ==
    /\ last.op = "train"
    /\ last.exc = "none"
    /\ Len(TrainCallbacks) = 3
    /\ TrainEvolves[3].at > TrainEvolves[2].at
    /\ TrainEvolves[2].at > TrainEvolves[1].at
    /\ layerset # {}

\* C21: stream on a network with a member layer that lacks the `stream`
\* interface fails with an error before any layer streamer is created or
\* stepped: no layer is advanced and the network _timestep is unchanged.
C21_StreamNeedsStreamInterface ==
    [][(last'.op = "stream" /\ \E l \in layerset : ~ has_stream(l)) =>
           /\ last'.exc = "AssertionError: stream"
           /\ calls' = <<>>
           /\ l_timestep' = l_timestep
           /\ timestep' = timestep]_vars

C21_Witness ==
    /\ last.op = "stream"
    /\ last.exc = "AssertionError: stream"
    /\ \E l \in layerset : ~ has_stream(l)
    /\ \E l \in layerset : has_stream(l)
    /\ hasattr(State, <<"input_layer">>)
    /\ dt # None

\* C24: in stream, at every step every layer receives the state, after the
\* step before, of its own input layer, or the external input when it is the
\* layer flagged external-input; this holds for every acyclic network, also
\* when the layers are not one chain.
C24_StreamRoutesInputs ==
    [][(last'.op = "stream" /\ last'.exc = "none") =>
           \A k \in 1..Len(calls') :
               LET lyr == calls'[k].lyr
               IN  calls'[k].src = IF external_input[lyr] THEN ExternalIn
                                   ELSE pre_layer[lyr]]_vars

====
